---- MODULE Spec2Model ----
(***************************************************************************)
(* Model of the doc-analyzer retrieval and orchestration pipeline.         *)
(*                                                                         *)
(*   Spec        the chat endpoint (src/app/api/chat/route.ts, POST): one  *)
(*               question from body parsing to its single response, with   *)
(*               the Python backend as its environment.                    *)
(*   SpecSegment the segmenter (src/app/api/upload/route.ts,               *)
(*               createTextChunks / splitBySentences) applied to bounded   *)
(*               texts.                                                    *)
(*   SpecUpload  the upload handler (src/app/api/upload/route.ts, POST)    *)
(*               applied to bounded multipart requests.                    *)
(*   SpecApi     the Request Executor (src/lib/api.ts, ApiClient.request): *)
(*               one call, with a clock counting ticks since the call.     *)
(*   SpecWidget  the page and the chat widget (src/app/page.tsx,           *)
(*               src/components/ChatInterface.tsx).                        *)
(*   SpecCalls   one request that is either a chat request or a call of    *)
(*               ApiClient.request.                                        *)
(*   SpecLive    Spec with the deadlines of the two fetches firing.        *)
(*   SpecHealth  the health endpoint (src/app/api/health/route.ts, GET)    *)
(*               and the chat handler's health step against one backend    *)
(*               state.                                                    *)
(*                                                                         *)
(* JavaScript values are encoded as strings: Undefined stands for a        *)
(* missing property, JsTrue / JsFalse for the booleans. Texts handed to    *)
(* the segmenter are sequences of one-character strings.                   *)
(***************************************************************************)
EXTENDS Integers, Sequences, FiniteSets, TLC

VARIABLES
    pc,            \* position of the chat handler: idle, health, infer, done
    body,          \* the parsed request body (or the unparsable marker)
    healthOutcome, \* how the fetch of /health ended
    inferOutcome,  \* how the fetch of /chat ended
    healthCalls,   \* number of fetches of /health issued
    inferCalls,    \* number of fetches of /chat issued
    attempts,      \* backend: the BackendAttempt log of the model chain
    backendReply,  \* backend: the HTTP reply to POST /chat, once produced
    response,      \* the NextResponse returned by the chat handler
    outbound,      \* the JSON body of the fetch of /chat, once issued
    ranked,        \* backend: the Ranker's selection for the question
    upc,           \* position of the segmenter run: off, input, done
    text,          \* the text handed to createTextChunks
    maxChunkSize,  \* the maxChunkSize handed to createTextChunks
    chunks,        \* the result of createTextChunks
    rechunks,      \* per separator: the chunks of the joined chunks
    uploadPc,      \* position of the upload handler: off, received, done
    upload,        \* the multipart request received by the upload handler
    uploadResponse, \* the NextResponse returned by the upload handler
    apiPc,         \* position of ApiClient.request: off, fetch, body,
                   \* returned, thrown
    apiTimeout,    \* this.timeout, in ticks
    apiClock,      \* ticks elapsed since request was called
    timerArmed,    \* the setTimeout of line 39 is pending
    fetchCount,    \* number of calls of fetch made by request
    apiResponse,   \* status and content type of the Response, once resolved
    apiCause,      \* what happened to the call, as the environment saw it
    apiResult,     \* what request returned or threw
    apiCall,       \* the payload and the headers ApiClient.post was given
    fetchConfig,   \* the config request handed to fetch
    handled,       \* the error the caller caught and handleAPIError's answer
    documentData,  \* page: the Document the page holds, or null
    messages,      \* chat widget: the conversation
    isLoading,     \* chat widget: a question is being answered
    chatError,     \* chat widget: the error state, or null
    inFlight,      \* chat widget: the pending fetch of /api/chat
    submitted,     \* chat widget: number of questions sent so far
    uploadedFile,  \* upload widget: the file shown as uploaded, or null
    uploading,     \* page: isLoading, an upload is in progress
    uploadFlight,  \* upload widget: the pending fetch of /api/upload
    uploadError,   \* upload widget: the error state, or null
    healthPc,      \* position of the health handler: off, idle, done
    backendState,  \* how the backend answers GET /health at present
    healthReport,  \* the report returned by GET /api/health
    precheck       \* the outcome of the chat handler's health step

chatVars == <<pc, body, healthOutcome, inferOutcome, healthCalls, inferCalls,
              attempts, backendReply, response, outbound, ranked>>
segVars == <<upc, text, maxChunkSize, chunks, rechunks>>
uploadVars == <<uploadPc, upload, uploadResponse>>
callVars == <<apiCall, fetchConfig, handled>>
apiVars == <<apiPc, apiTimeout, apiClock, timerArmed, fetchCount,
             apiResponse, apiCause, apiResult, callVars>>
fileVars == <<uploadedFile, uploading, uploadFlight, uploadError>>
widgetVars == <<documentData, messages, isLoading, chatError, inFlight,
                submitted, fileVars>>
healthVars == <<healthPc, backendState, healthReport, precheck>>
vars == <<chatVars, segVars, uploadVars, apiVars, widgetVars, healthVars>>

\* what each component leaves alone
nonChatVars == <<segVars, uploadVars, apiVars, widgetVars, healthVars>>
nonSegVars == <<chatVars, uploadVars, apiVars, widgetVars, healthVars>>
nonUploadVars == <<chatVars, segVars, apiVars, widgetVars, healthVars>>
nonApiVars == <<chatVars, segVars, uploadVars, widgetVars, healthVars>>
nonWidgetVars == <<chatVars, segVars, uploadVars, apiVars, healthVars>>
nonHealthVars == <<chatVars, segVars, uploadVars, apiVars, widgetVars>>

-----------------------------------------------------------------------------
(* JavaScript value encoding *)

Undefined == "undefined"
JsTrue == "true"
JsFalse == "false"

\* !v of JavaScript, on the encoded values
Falsy(v) == v \in {Undefined, JsFalse, ""}

\* obj.f of JavaScript: a missing property reads as undefined
Field(obj, f) == IF f \in DOMAIN obj THEN obj[f] ELSE Undefined

\* a || b of JavaScript
OrElse(a, b) == IF Falsy(a) THEN b ELSE a

SetMin(S) == CHOOSE x \in S : \A y \in S : x <= y

SetMax(S) == CHOOSE x \in S : \A y \in S : x >= y

\* Response.ok of fetch
Ok(status) == status >= 200 /\ status <= 299

-----------------------------------------------------------------------------
(* Bounds and input sets of the chat endpoint *)

MaxModels == 2

AllModels == <<"DeepSeek V3", "Meta Llama 3.1", "Qwen 2.5", "Mistral", "Gemma">>

ModelChain == SubSeq(AllModels, 1, MaxModels)

UnparsableBody == [unparsable |-> JsTrue]

Questions == {Undefined, "", "What is the budget?", "Is the weather SUNNY?"}

DocumentTexts == {Undefined, "", "The budget is $500."}

MaxChunks == 3

ChunkTexts ==
    {"The budget is $500.", "The weather is sunny.",
     "Our budget exceeded $500 this year."}

\* the chunk arrays a request carries: at most MaxChunks chunks
ChunkLists == UNION {[1..n -> ChunkTexts] : n \in 0..MaxChunks}

\* a body without chunks reads chunks as undefined
RequestBodies ==
    {UnparsableBody} \cup
    [question : Questions, documentText : DocumentTexts] \cup
    [question : Questions, documentText : DocumentTexts, chunks : ChunkLists]

Strings == (Questions \cup ChunkTexts) \ {Undefined}

\* The characters of the strings of the model
Chars ==
    [s \in Strings |->
        CASE s = "What is the budget?" ->
            <<"W", "h", "a", "t", " ", "i", "s", " ", "t", "h", "e", " ", "b",
              "u", "d", "g", "e", "t", "?">>
          [] s = "Is the weather SUNNY?" ->
            <<"I", "s", " ", "t", "h", "e", " ", "w", "e", "a", "t", "h", "e",
              "r", " ", "S", "U", "N", "N", "Y", "?">>
          [] s = "The budget is $500." ->
            <<"T", "h", "e", " ", "b", "u", "d", "g", "e", "t", " ", "i", "s",
              " ", "$", "5", "0", "0", ".">>
          [] s = "The weather is sunny." ->
            <<"T", "h", "e", " ", "w", "e", "a", "t", "h", "e", "r", " ", "i",
              "s", " ", "s", "u", "n", "n", "y", ".">>
          [] s = "Our budget exceeded $500 this year." ->
            <<"O", "u", "r", " ", "b", "u", "d", "g", "e", "t", " ", "e", "x",
              "c", "e", "e", "d", "e", "d", " ", "$", "5", "0", "0", " ", "t",
              "h", "i", "s", " ", "y", "e", "a", "r", ".">>
          [] OTHER -> <<>>]

HealthStatuses == {200, 404, 500, 503}

InferenceStatuses == {200, 404, 422, 429, 500, 502, 503}

\* The name of the exception a fetch rejects with when its AbortSignal.timeout
\* deadline fires: the signal's reason is a TimeoutError DOMException; fetch
\* implementations that ignore the reason reject with an AbortError instead.
TimeoutNames == {"TimeoutError", "AbortError"}

\* A fetch that cannot reach the server rejects with a TypeError.
NetworkNames == {"TypeError"}

\* What response.json() meets: a JSON object, the JSON value null (reading a
\* property of it throws a TypeError), or a body that is not JSON (json()
\* throws a SyntaxError)
BodyKinds == {"object", "null", "unparsable"}

HealthOutcomes ==
    [kind : {"reject"}, name : NetworkNames \cup TimeoutNames] \cup
    [kind : {"response"}, status : HealthStatuses, bodyKind : BodyKinds,
     huggingface_available : {Undefined, JsFalse, JsTrue}]

NoOutcome == [kind |-> "none"]

NoReply == [status |-> 0]

NoResponse == [status |-> 0]

Json(status, b) == [status |-> status, body |-> b]

-----------------------------------------------------------------------------
(* The chat handler, src/app/api/chat/route.ts *)

\* ValidateBody with the documentText test forgotten
ValidateBodyQuestionOnly(b) == ~Falsy(Field(b, "question"))

\* lines 10-15: the body passes validation
ValidateBody(b) ==
    /\ ~Falsy(Field(b, "question"))
    /\ ~Falsy(Field(b, "documentText"))

ValidationResponse == Json(400, [error |-> "Missing question or document"])

UnexpectedResponse ==
    Json(500, [error |-> "An unexpected error occurred while processing your question"])

\* lines 28-41
HealthNotOkResponse(h) ==
    Json(503, [error |-> "Python AI service is not available",
               details |-> "Health check failed with status",
               healthStatus |-> h.status])

\* lines 45-58
NotConfiguredResponse ==
    Json(503, [error |-> "HuggingFace service not configured in Python API",
               details |-> "healthData"])

\* lines 59-76
CannotConnectResponse ==
    Json(503, [error |-> "Cannot connect to Python AI service",
               details |-> "healthError.message"])

\* HealthCheckResult with the healthResponse.ok test forgotten
HealthCheckResultNoStatusCheck(h) ==
    IF h.kind = "reject" THEN CannotConnectResponse
    ELSE IF h.bodyKind # "object" THEN CannotConnectResponse
    ELSE IF Falsy(h.huggingface_available) THEN NotConfiguredResponse
    ELSE NoResponse

\* HealthCheckResult answering a missing capability like a failed probe
HealthCheckResultSameError(h) ==
    IF h.kind = "reject" THEN CannotConnectResponse
    ELSE IF ~Ok(h.status) THEN HealthNotOkResponse(h)
    ELSE IF h.bodyKind # "object" THEN CannotConnectResponse
    ELSE IF Falsy(h.huggingface_available) THEN CannotConnectResponse
    ELSE NoResponse

\* lines 18-76: the response the health step returns, or NoResponse when the
\* handler goes on to the inference call
HealthCheckResult(h) ==
    IF h.kind = "reject" THEN CannotConnectResponse
    ELSE IF ~Ok(h.status) THEN HealthNotOkResponse(h)
    ELSE IF h.bodyKind # "object" THEN CannotConnectResponse
    ELSE IF Falsy(h.huggingface_available) THEN NotConfiguredResponse
    ELSE NoResponse

\* lines 93-106: the backend answered with a non-2xx status
UpstreamErrorResponse(r) ==
    LET errorData == IF r.bodyKind = "object" THEN r.body ELSE [empty |-> JsTrue]
    IN  Json(r.status,
             [error |-> "AI processing failed",
              details |-> OrElse(Field(errorData, "detail"), "Python API returned status"),
              pythonError |-> errorData])

\* lines 108-117
SuccessResponse(aiResponse) ==
    Json(200, [answer |-> Field(aiResponse, "answer"),
               relevantChunks |-> Field(aiResponse, "relevant_chunks"),
               model |-> Field(aiResponse, "model_used"),
               processingTime |-> Field(aiResponse, "processing_time"),
               backend |-> "python",
               timestamp |-> "now"])

\* InferenceCatch answering a deadline with 504 Gateway Timeout
InferenceCatchGatewayTimeout(name) ==
    IF name = "AbortError"
    THEN Json(504, [error |-> "AI processing timeout",
                    suggestion |-> "Please try again in 30-60 seconds."])
    ELSE Json(500, [error |-> "AI processing failed", details |-> name])

\* lines 118-138: the catch around the inference call
InferenceCatch(name) ==
    IF name = "AbortError"
    THEN Json(408, [error |-> "AI processing timeout",
                    suggestion |-> "Please try again in 30-60 seconds."])
    ELSE Json(500, [error |-> "AI processing failed", details |-> name])

\* lines 93-117: the fetch of /chat resolved with reply r
InferenceReply(r) ==
    IF r.bodyKind = "null" THEN InferenceCatch("TypeError")
    ELSE IF ~Ok(r.status) THEN UpstreamErrorResponse(r)
    ELSE IF r.bodyKind = "unparsable" THEN InferenceCatch("SyntaxError")
    ELSE SuccessResponse(r.body)

\* lines 80-91 with the chunks left out
InferenceRequestBodyNoChunks(b) ==
    [sent |-> TRUE, question |-> b.question,
     document_text |-> b.documentText, chunks |-> <<>>]

\* lines 80-91: the JSON body of the fetch of /chat; chunks || [] keeps an
\* array, which is never falsy, and replaces a missing one
InferenceRequestBody(b) ==
    [sent |-> TRUE, question |-> b.question,
     document_text |-> b.documentText,
     chunks |-> IF "chunks" \in DOMAIN b THEN b.chunks ELSE <<>>]

NoOutbound == [sent |-> FALSE]

-----------------------------------------------------------------------------
(* The Python backend behind POST /chat: the priority-ordered model chain *)

AttemptOutcomes == {"Success", "TimeoutFailure", "UpstreamFailure", "NetworkFailure"}

Answers == {"42", "7"}

ExhaustedStatuses == {500, 503}

\* One BackendAttempt of the log
BackendAttempt(i, kind) == [modelId |-> ModelChain[i], outcome |-> kind]

\* The reply of the backend when model i answered
AnsweredReply(i, ans, log) ==
    [status |-> 200, bodyKind |-> "object",
     body |-> [answer |-> ans, model_used |-> ModelChain[i],
               processing_time |-> "1.5", relevant_chunks |-> "3"]]

\* The reply of the backend when every model of the chain failed
ExhaustedReply(s, log) ==
    [status |-> s, bodyKind |-> "object",
     body |-> [detail |-> "All AI models failed",
               kind |-> "Exhausted",
               lastFailure |-> log[Len(log)].outcome,
               attempts |-> log]]

\* A reply that does not come from the model chain (request rejected by the
\* backend's own validation, rate limiting, a proxy error page, a cut body)
OtherReply(s, k) ==
    [status |-> s, bodyKind |-> k,
     body |-> [detail |-> "backend error"]]

-----------------------------------------------------------------------------
(* The Relevance Ranker of the Python backend *)

Capitals ==
    <<"A", "B", "C", "D", "E", "F", "G", "H", "I", "J", "K", "L", "M",
      "N", "O", "P", "Q", "R", "S", "T", "U", "V", "W", "X", "Y", "Z">>

Letters ==
    <<"a", "b", "c", "d", "e", "f", "g", "h", "i", "j", "k", "l", "m",
      "n", "o", "p", "q", "r", "s", "t", "u", "v", "w", "x", "y", "z">>

Digits == {"0", "1", "2", "3", "4", "5", "6", "7", "8", "9"}

\* lowercasing of one character
Lower(c) ==
    IF \E i \in 1..Len(Capitals) : Capitals[i] = c
    THEN Letters[CHOOSE i \in 1..Len(Capitals) : Capitals[i] = c]
    ELSE c

\* a word character: a letter, a digit or the underscore
IsWordChar(c) ==
    \/ \E i \in 1..Len(Letters) : Letters[i] = Lower(c)
    \/ c \in Digits
    \/ c = "_"

\* the positions where a run of word characters starts
TokenStarts(s) ==
    {i \in 1..Len(s) : IsWordChar(s[i]) /\ (i = 1 \/ ~IsWordChar(s[i - 1]))}

\* the lowercased run of word characters that starts at position i
TokenAt(s, i) ==
    LET stop == SetMin({j \in i..(Len(s) + 1) :
                           j = Len(s) + 1 \/ ~IsWordChar(s[j])})
    IN  [k \in 1..(stop - i) |-> Lower(s[i + k - 1])]

\* split on runs of non-word characters, lowercased, in order
Tokens(s) ==
    LET starts == TokenStarts(s)
        nth(k) == CHOOSE i \in starts :
                      Cardinality({j \in starts : j <= i}) = k
    IN  [k \in 1..Cardinality(starts) |-> TokenAt(s, nth(k))]

\* needle is a substring of hay
Contains(needle, hay) ==
    \E o \in 0..(Len(hay) - Len(needle)) :
        SubSeq(hay, o + 1, o + Len(needle)) = needle

\* question tokens of this length or shorter do not count
ShortToken == 3

\* the number of question tokens longer than 3 characters that are a
\* substring of some token of the chunk
Score(question, chunk) ==
    LET qt == Tokens(Chars[question])
        ct == Tokens(Chars[chunk])
    IN  Cardinality({k \in 1..Len(qt) :
            /\ Len(qt[k]) > ShortToken
            /\ \E j \in 1..Len(ct) : Contains(qt[k], ct[j])})

\* the scores of the strings of the model, computed once
ScoreTable == [question \in Strings, chunk \in ChunkTexts |-> Score(question, chunk)]

\* insert chunk i behind every chunk that scores at least as much
RECURSIVE InsertRanked(_, _, _)
InsertRanked(sorted, i, score) ==
    IF sorted = <<>> THEN <<i>>
    ELSE IF score[Head(sorted)] >= score[i]
    THEN <<Head(sorted)>> \o InsertRanked(Tail(sorted), i, score)
    ELSE <<i>> \o sorted

\* the chunks 1..n sorted by descending score, stable
RECURSIVE SortByScore(_, _)
SortByScore(n, score) ==
    IF n = 0 THEN <<>>
    ELSE InsertRanked(SortByScore(n - 1, score), n, score)

\* every chunk position, best first
RankAll(question, cs) ==
    SortByScore(Len(cs), [i \in 1..Len(cs) |-> ScoreTable[question, cs[i]]])

\* rank(question, chunks, topK): the positions of the selected chunks
Rank(question, cs, topK) ==
    LET sorted == RankAll(question, cs)
    IN  SubSeq(sorted, 1, IF topK < Len(cs) THEN topK ELSE Len(cs))

\* the values of topK the backend may be configured with
TopKs == {2, 3}

NoRanking == [done |-> FALSE]

\* The backend ranks the chunks of the request it received, once
BackendRank(topK) ==
    /\ pc = "infer"
    /\ backendReply.status = 0
    /\ ~ranked.done
    /\ LET sel == Rank(outbound.question, outbound.chunks, topK)
       IN  ranked' = [done |-> TRUE, topK |-> topK, selection |-> sel,
                      context |-> [k \in 1..Len(sel) |-> outbound.chunks[sel[k]]]]
    /\ UNCHANGED <<pc, body, healthOutcome, inferOutcome, healthCalls,
                   inferCalls, attempts, backendReply, response, outbound,
                   nonChatVars>>

\* The backend tries the next model of the chain
BackendInvoke(kind, ans, s) ==
    /\ pc = "infer"
    /\ backendReply.status = 0
    /\ ranked.done
    /\ Len(attempts) < Len(ModelChain)
    /\ LET i == Len(attempts) + 1
           log == Append(attempts, BackendAttempt(i, kind))
       IN  /\ attempts' = log
           /\ backendReply' =
                 IF kind = "Success" THEN AnsweredReply(i, ans, log)
                 ELSE IF i = Len(ModelChain) THEN ExhaustedReply(s, log)
                 ELSE NoReply
    /\ UNCHANGED <<pc, body, healthOutcome, inferOutcome, healthCalls,
                   inferCalls, response, outbound, ranked,
                   nonChatVars>>

\* The backend answers without running the chain
BackendOther(s, k) ==
    /\ pc = "infer"
    /\ backendReply.status = 0
    /\ attempts = <<>>
    /\ backendReply' = OtherReply(s, k)
    /\ UNCHANGED <<pc, body, healthOutcome, inferOutcome, healthCalls,
                   inferCalls, attempts, response, outbound, ranked,
                   nonChatVars>>

-----------------------------------------------------------------------------
(* Actions of the chat handler *)

\* lines 5-26 and 139-151: parse the body, validate, issue the health probe
Post(b) ==
    /\ pc = "idle"
    /\ body' = b
    /\ IF "unparsable" \in DOMAIN b
       THEN /\ response' = UnexpectedResponse
            /\ pc' = "done"
            /\ UNCHANGED healthCalls
       ELSE IF ~ValidateBody(b)
       THEN /\ response' = ValidationResponse
            /\ pc' = "done"
            /\ UNCHANGED healthCalls
       ELSE /\ healthCalls' = healthCalls + 1
            /\ pc' = "health"
            /\ UNCHANGED response
    /\ UNCHANGED <<healthOutcome, inferOutcome, inferCalls, attempts,
                   backendReply, outbound, ranked, nonChatVars>>

\* lines 20-91: the health probe ends; answer 503 or issue the inference call
HealthReturns(h) ==
    /\ pc = "health"
    /\ healthOutcome' = h
    /\ LET r == HealthCheckResult(h)
       IN  IF r.status = 0
           THEN /\ inferCalls' = inferCalls + 1
                /\ outbound' = InferenceRequestBody(body)
                /\ pc' = "infer"
                /\ UNCHANGED response
           ELSE /\ response' = r
                /\ pc' = "done"
                /\ UNCHANGED <<inferCalls, outbound>>
    /\ UNCHANGED <<body, inferOutcome, healthCalls, attempts, backendReply,
                   ranked, nonChatVars>>

\* lines 80-91 with the fetch of /chat issued again after a rejection
InferRejectsRetry(name) ==
    /\ pc = "infer"
    /\ inferCalls < 3
    /\ inferCalls' = inferCalls + 1
    /\ inferOutcome' = [kind |-> "reject", name |-> name]
    /\ UNCHANGED <<pc, body, healthOutcome, healthCalls, attempts,
                   backendReply, response, outbound, ranked, nonChatVars>>

\* lines 80-91 and 118-138: the fetch of /chat rejects (no connection, or the
\* 45 s deadline fired before a response)
InferRejects(name) ==
    /\ pc = "infer"
    /\ inferOutcome' = [kind |-> "reject", name |-> name]
    /\ response' = InferenceCatch(name)
    /\ pc' = "done"
    /\ UNCHANGED <<body, healthOutcome, healthCalls, inferCalls, attempts,
                   backendReply, outbound, ranked, nonChatVars>>

\* lines 93-117: the fetch of /chat resolves with the backend's reply
InferResolves ==
    /\ pc = "infer"
    /\ backendReply.status # 0
    /\ inferOutcome' = [kind |-> "response", status |-> backendReply.status]
    /\ response' = InferenceReply(backendReply)
    /\ pc' = "done"
    /\ UNCHANGED <<body, healthOutcome, healthCalls, inferCalls, attempts,
                   backendReply, outbound, ranked, nonChatVars>>

ChatInit ==
    /\ pc = "idle"
    /\ body = [question |-> Undefined, documentText |-> Undefined, chunks |-> Undefined]
    /\ healthOutcome = NoOutcome
    /\ inferOutcome = NoOutcome
    /\ healthCalls = 0
    /\ inferCalls = 0
    /\ attempts = <<>>
    /\ backendReply = NoReply
    /\ response = NoResponse
    /\ outbound = NoOutbound
    /\ ranked = NoRanking

SegIdle ==
    /\ upc = "off"
    /\ text = <<>>
    /\ maxChunkSize = 0
    /\ chunks = <<>>
    /\ rechunks = <<>>

\* the upload handler is not running
UploadIdle ==
    /\ uploadPc = "off"
    /\ upload = [kind |-> "none"]
    /\ uploadResponse = NoResponse

\* no call of ApiClient.post, no fetch, nothing caught
NoCall == [payload |-> "none"]
NoConfig == [sent |-> FALSE]
NotHandled == [done |-> FALSE]

\* ApiClient.request is not running
ApiIdle ==
    /\ apiPc = "off"
    /\ apiTimeout = 0
    /\ apiClock = 0
    /\ timerArmed = FALSE
    /\ fetchCount = 0
    /\ apiResponse = NoResponse
    /\ apiCause = "none"
    /\ apiResult = [kind |-> "none"]
    /\ apiCall = NoCall
    /\ fetchConfig = NoConfig
    /\ handled = NotHandled

\* null of JavaScript where a string is expected
Null == "null"

\* null of JavaScript where a Document record is expected
NullDocument == [success |-> JsFalse]

\* no fetch of /api/chat is pending
NoFlight == [sent |-> FALSE]

\* null of JavaScript where a File is expected
NullFile == [name |-> Null]

\* the page has just been mounted: lines 30-31 of page.tsx, 45-49 of
\* ChatInterface.tsx and 44-46 of FileUpload.tsx
WidgetMounted ==
    /\ documentData = NullDocument
    /\ messages = <<>>
    /\ isLoading = FALSE
    /\ chatError = Undefined
    /\ inFlight = NoFlight
    /\ submitted = 0
    /\ uploadedFile = NullFile
    /\ uploading = FALSE
    /\ uploadFlight = NoFlight
    /\ uploadError = Null

\* no report asked for, no pre-check run
NoReport == [status |-> "none"]
NoPrecheck == [ran |-> FALSE]

\* the health handler is not running
HealthIdle ==
    /\ healthPc = "off"
    /\ backendState = [reach |-> "none"]
    /\ healthReport = NoReport
    /\ precheck = NoPrecheck

Init ==
    ChatInit /\ SegIdle /\ UploadIdle /\ ApiIdle /\ WidgetMounted /\ HealthIdle

Next ==
    \/ \E b \in RequestBodies : Post(b)
    \/ \E h \in HealthOutcomes : HealthReturns(h)
    \/ \E kind \in AttemptOutcomes, ans \in Answers, s \in ExhaustedStatuses :
          BackendInvoke(kind, ans, s)
    \/ \E topK \in TopKs : BackendRank(topK)
    \/ \E s \in InferenceStatuses, k \in BodyKinds : BackendOther(s, k)
    \/ \E name \in NetworkNames \cup TimeoutNames : InferRejects(name)
    \/ InferResolves

Spec == Init /\ [][Next]_vars

-----------------------------------------------------------------------------
(* The chat client, src/components/ChatInterface.tsx *)

\* lines 244-247: the model name the client shows for an answer
ClientModelUsed(data) == Field(data, "modelUsed")

-----------------------------------------------------------------------------
(* Properties of the chat endpoint *)

\* The probe threw, timed out or came back with a non-2xx status
ProbeFailed(h) ==
    \/ h.kind = "reject"
    \/ h.kind = "response" /\ ~Ok(h.status)

\* The probe came back 2xx with a JSON object whose capability flag is
\* absent or false
ProbeMisconfigured(h) ==
    /\ h.kind = "response"
    /\ Ok(h.status)
    /\ h.bodyKind = "object"
    /\ Falsy(h.huggingface_available)

FailureKinds == {"TimeoutFailure", "UpstreamFailure", "NetworkFailure"}

\* C1: if the health probe fails (throws, times out, non-2xx), the request
\* is answered 503 and no inference call is ever issued for it.
C1_ProbeFailureShortCircuits ==
    ProbeFailed(healthOutcome) =>
        /\ pc = "done"
        /\ inferCalls = 0
        /\ attempts = <<>>
        /\ response.status = 503

C1_Witness ==
    /\ healthOutcome.kind = "reject"
    /\ healthOutcome.name = "TimeoutError"
    /\ response.status = 503

\* C2 (as claimed): after the primary model failed, the first success of the
\* chain is the answer, modelUsed names the model that succeeded and the
\* attempt history has one entry per model tried.
C2_FallbackAnswerNamesModel ==
    (pc = "done" /\ response.status = 200 /\ Len(attempts) >= 2) =>
        LET n == Len(attempts)
        IN  /\ \A i \in 1..(n - 1) : attempts[i].outcome \in FailureKinds
            /\ \A i \in 1..n : attempts[i].modelId = ModelChain[i]
            /\ attempts[n].outcome = "Success"
            /\ response.body.answer = backendReply.body.answer
            /\ ClientModelUsed(response.body) = ModelChain[n]

\* C3 (as claimed): when every model of the chain timed out, the error
\* surfaced is the Exhausted error with the N attempts in chain order and
\* the last failure kind.
C3_ExhaustedCarriesAttempts ==
    (/\ pc = "done"
     /\ Len(attempts) = Len(ModelChain)
     /\ \A i \in 1..Len(attempts) : attempts[i].outcome = "TimeoutFailure") =>
        /\ "pythonError" \in DOMAIN response.body
        /\ Field(response.body.pythonError, "kind") = "Exhausted"
        /\ Field(response.body.pythonError, "lastFailure") = "TimeoutFailure"
        /\ response.body.pythonError.attempts = attempts

\* C4 (as claimed): an inference call that gets no response before its 45 s
\* deadline is answered 408 "AI processing timeout".
C4_DeadlineAnswers408 ==
    (inferOutcome.kind = "reject" /\ inferOutcome.name \in TimeoutNames) =>
        /\ response.status = 408
        /\ response.body.error = "AI processing timeout"

\* C5: a 2xx probe whose JSON object lacks the capability flag (absent or
\* false) is answered without any inference call, by a response that no
\* failed probe produces.
C5_MisconfiguredIsDistinct ==
    ProbeMisconfigured(healthOutcome) =>
        /\ pc = "done"
        /\ inferCalls = 0
        /\ response.status # 0
        /\ \A h \in HealthOutcomes :
              ProbeFailed(h) => HealthCheckResult(h).body.error # response.body.error

C5_Witness ==
    /\ ProbeMisconfigured(healthOutcome)
    /\ healthOutcome.huggingface_available = Undefined
    /\ response.body.error = "HuggingFace service not configured in Python API"

\* The posted body is an object whose question or documentText is missing
\* or empty
BodyIncomplete ==
    /\ pc # "idle"
    /\ "unparsable" \notin DOMAIN body
    /\ (Falsy(body.question) \/ Falsy(body.documentText))

C7_SuccessCarriesModelUsed ==
    (pc = "done" /\ response.status = 200) =>
        /\ {"answer", "modelUsed", "processingTime", "relevantChunks"}
              \subseteq DOMAIN response.body
        /\ ClientModelUsed(response.body) = Field(backendReply.body, "model_used")

ClosedStatusSet == {400, 408, 429, 500, 503}

\* C8 (as claimed): every failure response has a status of the closed set.
C8_FailureStatusClosed ==
    (pc = "done" /\ response.status # 200) => response.status \in ClosedStatusSet

\* C8 (amended): every failure response has a status of the closed set, or
\* the non-2xx status the inference backend replied with, relayed unchanged.
C8_FailureStatusClosedOrRelayed ==
    (pc = "done" /\ response.status # 200) =>
        \/ response.status \in ClosedStatusSet
        \/ /\ inferOutcome.kind = "response"
           /\ ~Ok(backendReply.status)
           /\ response.status = backendReply.status

C8_Witness ==
    /\ pc = "done"
    /\ inferOutcome.kind = "response"
    /\ response.status = 422

-----------------------------------------------------------------------------
(* Strings as sequences of one-character strings *)

\* the characters \s of a regular expression matches, and trim() removes
IsSpace(c) == c \in {" ", "\n", "\t", "\r"}

\* the characters of the class [.!?]
IsStop(c) == c \in {".", "!", "?"}

\* String.prototype.trim
Trim(s) ==
    LET keep == {i \in 1..Len(s) : ~IsSpace(s[i])}
    IN  IF keep = {} THEN <<>> ELSE SubSeq(s, SetMin(keep), SetMax(keep))

\* String.prototype.slice(from, to) with 0-based from and exclusive to
Slice(s, from, to) ==
    SubSeq(s, from + 1, IF to > Len(s) THEN Len(s) ELSE to)

RECURSIVE Flatten(_)
Flatten(ss) == IF ss = <<>> THEN <<>> ELSE Head(ss) \o Flatten(Tail(ss))

\* the ends k of the matches of /\n\s*\n/ that start at j
BreakEnds(s, j) ==
    {k \in (j + 1)..Len(s) :
        /\ s[k] = "\n"
        /\ \A m \in (j + 1)..(k - 1) : IsSpace(s[m])}

\* text.split(/\n\s*\n/), from position i on
RECURSIVE SplitParagraphsFrom(_, _)
SplitParagraphsFrom(s, i) ==
    LET starts == {j \in i..Len(s) : s[j] = "\n" /\ BreakEnds(s, j) # {}}
    IN  IF starts = {}
        THEN <<SubSeq(s, i, Len(s))>>
        ELSE LET j == SetMin(starts)
                 k == SetMax(BreakEnds(s, j))
             IN  <<SubSeq(s, i, j - 1)>> \o SplitParagraphsFrom(s, k + 1)

\* the end of the run of [.!?] that starts at j
RECURSIVE StopRunEnd(_, _)
StopRunEnd(s, j) ==
    IF j < Len(s) /\ IsStop(s[j + 1]) THEN StopRunEnd(s, j + 1) ELSE j

\* text.split(/[.!?]+/), from position i on
RECURSIVE SplitSentencesFrom(_, _)
SplitSentencesFrom(s, i) ==
    LET starts == {j \in i..Len(s) : IsStop(s[j])}
    IN  IF starts = {}
        THEN <<SubSeq(s, i, Len(s))>>
        ELSE LET j == SetMin(starts)
             IN  <<SubSeq(s, i, j - 1)>> \o SplitSentencesFrom(s, StopRunEnd(s, j) + 1)

NotBlank(p) == Len(Trim(p)) > 0

\* the chunks of the spec's ranking scenario
ScenarioChunks ==
    <<"The budget is $500.", "The weather is sunny.",
      "Our budget exceeded $500 this year.">>

-----------------------------------------------------------------------------
(* Whitespace normalization of the upload handler, src/app/api/upload/route.ts *)

\* A dropped character is marked by the empty string and then removed
Unmarked(m) == SelectSeq(m, LAMBDA c : c # "")

\* line 77: .replace(/\r\n/g, "\n")
ReplaceCRLF(s) ==
    Unmarked([i \in 1..Len(s) |->
        IF s[i] = "\r" /\ i < Len(s) /\ s[i + 1] = "\n" THEN "" ELSE s[i]])

\* line 78: .replace(/\r/g, "\n")
ReplaceCR(s) == [i \in 1..Len(s) |-> IF s[i] = "\r" THEN "\n" ELSE s[i]]

\* line 79: .replace(/\s+/g, " ")
CollapseWhitespace(s) ==
    Unmarked([i \in 1..Len(s) |->
        IF ~IsSpace(s[i]) THEN s[i]
        ELSE IF i > 1 /\ IsSpace(s[i - 1]) THEN "" ELSE " "])

\* line 80: .replace(/\n+/g, "\n")
CollapseLineFeeds(s) ==
    Unmarked([i \in 1..Len(s) |->
        IF s[i] = "\n" /\ i > 1 /\ s[i - 1] = "\n" THEN "" ELSE s[i]])

\* lines 76-81: cleanedText
CleanText(raw) ==
    Trim(CollapseLineFeeds(CollapseWhitespace(ReplaceCR(ReplaceCRLF(raw)))))

MinTextLength == 10

\* lines 76-95: the text is one the upload handler hands to createTextChunks
PassedNormalization(t) == CleanText(t) = t /\ Len(t) >= MinTextLength

-----------------------------------------------------------------------------
(* The segmenter, src/app/api/upload/route.ts *)

MinChunkLength == 20

\* lines 168 and 207: chunks.filter((chunk) => chunk.length >= 20)
LongEnough(chunk) == Len(chunk) >= MinChunkLength

\* lines 201-203: the fixed-size slices of an oversized chunk
RECURSIVE HardSplit(_, _, _)
HardSplit(chunk, i, max) ==
    IF i >= Len(chunk) THEN <<>>
    ELSE <<Slice(chunk, i, i + max)>> \o HardSplit(chunk, i + max, max)

\* lines 196-205: every chunk kept or cut into slices
RECURSIVE FinalChunks(_, _)
FinalChunks(cs, max) ==
    IF cs = <<>> THEN <<>>
    ELSE (IF Len(Head(cs)) <= max THEN <<Head(cs)>> ELSE HardSplit(Head(cs), 0, max))
         \o FinalChunks(Tail(cs), max)

\* lines 177-190: the loop over the sentences; the result is <<chunks, currentChunk>>
RECURSIVE PackSentences(_, _, _, _)
PackSentences(sentences, acc, cur, max) ==
    IF sentences = <<>> THEN <<acc, cur>>
    ELSE LET cleanSentence == Trim(Head(sentences))
             potentialChunk ==
                 cur \o (IF cur # <<>> THEN <<".", " ">> ELSE <<>>)
                     \o cleanSentence \o <<".">>
         IN  IF cleanSentence = <<>>
             THEN PackSentences(Tail(sentences), acc, cur, max)
             ELSE IF Len(potentialChunk) > max /\ Len(cur) > 0
             THEN PackSentences(Tail(sentences), Append(acc, cur \o <<".">>),
                                cleanSentence, max)
             ELSE PackSentences(Tail(sentences), acc,
                                SubSeq(potentialChunk, 1, Len(potentialChunk) - 1), max)

\* lines 171-208
splitBySentences(t, max) ==
    LET sentences == SelectSeq(SplitSentencesFrom(t, 1), NotBlank)
        packed == PackSentences(sentences, <<>>, <<>>, max)
        cs == IF Trim(packed[2]) # <<>>
              THEN Append(packed[1], packed[2] \o <<".">>)
              ELSE packed[1]
    IN  SelectSeq(FinalChunks(cs, max), LongEnough)

\* lines 144-157: the loop over the paragraphs; the result is <<chunks, currentChunk>>
RECURSIVE PackParagraphs(_, _, _, _)
PackParagraphs(paragraphs, acc, cur, max) ==
    IF paragraphs = <<>> THEN <<acc, cur>>
    ELSE LET trimmedParagraph == Trim(Head(paragraphs))
         IN  IF Len(cur) + Len(trimmedParagraph) > max /\ Len(cur) > 0
             THEN PackParagraphs(Tail(paragraphs), Append(acc, Trim(cur)),
                                 trimmedParagraph, max)
             ELSE PackParagraphs(Tail(paragraphs), acc,
                                 cur \o (IF Len(cur) > 0 THEN <<"\n", "\n">> ELSE <<>>)
                                     \o trimmedParagraph,
                                 max)

\* lines 137-168: the path of a text longer than maxChunkSize
ChunkLongText(t, max) ==
    LET paragraphs == SelectSeq(SplitParagraphsFrom(t, 1), NotBlank)
        packed == PackParagraphs(paragraphs, <<>>, <<>>, max)
        cs == IF Trim(packed[2]) # <<>>
              THEN Append(packed[1], Trim(packed[2]))
              ELSE packed[1]
    IN  IF Len(cs) = 1 /\ Len(cs[1]) > max
        THEN splitBySentences(t, max)
        ELSE SelectSeq(cs, LongEnough)

\* createTextChunks applying the 20-character floor to a short text too
createTextChunksFloorAlways(t, max) ==
    IF Len(t) = 0 THEN <<>>
    ELSE IF Len(t) <= max THEN SelectSeq(<<t>>, LongEnough)
    ELSE ChunkLongText(t, max)

\* lines 129-169
createTextChunks(t, max) ==
    IF Len(t) = 0 THEN <<>>
    ELSE IF Len(t) <= max THEN <<t>>
    ELSE ChunkLongText(t, max)

-----------------------------------------------------------------------------
(* Bounded inputs of the segmenter *)

MaxSegs == 5

Rep(c, n) == [i \in 1..n |-> c]

\* The pieces texts are built from: two words, a space, two sentence stops
\* and a blank line
Vocabulary ==
    {Rep("a", 10), Rep("b", 4), <<" ">>, <<".">>, <<"!">>, <<"\n", "\n">>}

HelloText ==
    <<"H", "e", "l", "l", "o", ".", " ", "W", "o", "r", "l", "d", " ",
      "i", "s", " ", "b", "i", "g", ".">>

Texts ==
    {HelloText} \cup
    {Flatten(segs) : segs \in UNION {[1..n -> Vocabulary] : n \in 0..MaxSegs}}

\* 500 is the size the upload handler passes (line 98); the small sizes put
\* the bounded texts on the paragraph, sentence and hard-split paths
MaxChunkSizes == {12, 24, 40, 500}

ChatOff ==
    /\ pc = "off"
    /\ body = [question |-> Undefined, documentText |-> Undefined, chunks |-> Undefined]
    /\ healthOutcome = NoOutcome
    /\ inferOutcome = NoOutcome
    /\ healthCalls = 0
    /\ inferCalls = 0
    /\ attempts = <<>>
    /\ backendReply = NoReply
    /\ response = NoResponse
    /\ outbound = NoOutbound
    /\ ranked = NoRanking

SegInit ==
    /\ upc = "input"
    /\ text \in Texts
    /\ maxChunkSize \in MaxChunkSizes
    /\ chunks = <<>>
    /\ rechunks = <<>>

\* line 98: const chunks = createTextChunks(cleanedText, maxChunkSize)
Segment ==
    /\ upc = "input"
    /\ chunks' = createTextChunks(text, maxChunkSize)
    /\ upc' = "done"
    /\ UNCHANGED <<text, maxChunkSize, rechunks, nonSegVars>>

\* chunks.join(sep)
RECURSIVE JoinChunks(_, _)
JoinChunks(cs, sep) ==
    IF cs = <<>> THEN <<>>
    ELSE IF Len(cs) = 1 THEN cs[1]
    ELSE cs[1] \o sep \o JoinChunks(Tail(cs), sep)

\* The separators chunks are joined with: none, a space, the ". " of line 182
\* and the blank line of line 155
Separators == {<<>>, <<" ">>, <<".", " ">>, <<"\n", "\n">>}

\* createTextChunks applied to its own joined output, for every separator
Resegment ==
    /\ upc = "done"
    /\ rechunks' = [sep \in Separators |->
                       createTextChunks(JoinChunks(chunks, sep), maxChunkSize)]
    /\ upc' = "again"
    /\ UNCHANGED <<text, maxChunkSize, chunks, nonSegVars>>

SegmentInit ==
    ChatOff /\ SegInit /\ UploadIdle /\ ApiIdle /\ WidgetMounted /\ HealthIdle

SegmentNext == Segment \/ Resegment

SpecSegment == SegmentInit /\ [][SegmentNext]_vars

-----------------------------------------------------------------------------
(* Properties of the segmenter *)

\* C9: a text that passed normalization and is no longer than maxChunkSize
\* comes back as exactly one chunk, the text itself.
C9_ShortTextIsOneChunk ==
    (upc = "done" /\ Len(text) >= 1 /\ Len(text) <= maxChunkSize) =>
        chunks = <<text>>

C9_Witness ==
    /\ upc = "done"
    /\ text = HelloText
    /\ maxChunkSize = 500
    /\ chunks = <<HelloText>>

\* C10 (as claimed): every chunk returned is at most maxChunkSize long.
C10_ChunksWithinMax ==
    upc = "done" => \A i \in 1..Len(chunks) : Len(chunks[i]) <= maxChunkSize

\* the characters of s that are not whitespace, in order
NonSpace(s) == SelectSeq(s, LAMBDA c : ~IsSpace(c))

\* C11 (as claimed): the chunks, concatenated in order, are exactly the
\* non-whitespace characters of the text.
C11_ChunksReproduceText ==
    upc \in {"done", "again"} => NonSpace(Flatten(chunks)) = NonSpace(text)

\* C12 (as claimed): a text that passed normalization (at least 10
\* characters) never yields an empty chunk sequence.
C12_NeverEmpty ==
    (upc \in {"done", "again"} /\ PassedNormalization(text)) => chunks # <<>>

\* C13 (as claimed): joining the chunks and segmenting again with the same
\* maxChunkSize gives the same chunks (for at least one way of joining).
C13_SegmentIdempotent ==
    upc = "again" => \E sep \in Separators : rechunks[sep] = chunks

-----------------------------------------------------------------------------
(* The upload handler, src/app/api/upload/route.ts, POST                   *)
(*                                                                         *)
(* A file's content is a sequence of units: characters of one byte, the    *)
(* byte order mark (three bytes) and a byte that is not valid UTF-8. A     *)
(* file is its head followed by pad spaces, which lets a file reach the    *)
(* size limit: its size is the byte length of the head plus pad.           *)

BOM == "BOM"
InvalidByte == "0xFF"
ReplacementChar == "U+FFFD"

\* line 36: maxSize
MaxFileSize == 5 * 1024 * 1024

\* line 98: the maxChunkSize the handler passes
UploadChunkSize == 500

\* the byte order mark takes three bytes, every other unit one
ByteLength(bytes) ==
    Len(bytes) + 2 * Cardinality({i \in 1..Len(bytes) : bytes[i] = BOM})

\* file.size
FileSize(file) == ByteLength(file.head) + file.pad

\* line 53: new TextDecoder("utf-8").decode(buffer) drops a leading byte
\* order mark and decodes an invalid byte to U+FFFD; it never throws
Decode(bytes) ==
    LET rest == IF bytes # <<>> /\ bytes[1] = BOM THEN Tail(bytes) ELSE bytes
    IN  [i \in 1..Len(rest) |->
            IF rest[i] = InvalidByte THEN ReplacementChar ELSE rest[i]]

\* A run of n trailing spaces, kept as one: trim (lines 65, 81) and the
\* collapse of line 79 treat every run of spaces alike
Padding(n) == IF n > 0 THEN <<" ">> ELSE <<>>

\* extractedText, up to the length of its trailing run of spaces
ExtractedText(file) == Decode(file.head) \o Padding(file.pad)

\* line 7: formData.get("file"); null when the field is missing
FormFile(req) ==
    IF req.kind = "absent" THEN [kind |-> "null"]
    ELSE req

\* line 9: !file
NoFile(file) ==
    \/ file.kind = "null"
    \/ file.kind = "string" /\ file.value = ""

\* file.type; a string field has no type property
FileType(file) == IF file.kind = "file" THEN file.type ELSE Undefined

\* line 37: file.size > maxSize, with the limit itself rejected
TooLargeAtLimit(file) == FileSize(file) >= MaxFileSize

\* line 37: file.size > maxSize
TooLarge(file) == FileSize(file) > MaxFileSize

NoFileResponse == [status |-> 400, error |-> "No file provided"]

UnsupportedTypeResponse(file) ==
    [status |-> 400, error |-> "Only text files (.txt) are supported",
     fileType |-> FileType(file)]

TooLargeResponse(file) ==
    [status |-> 413,
     error |-> "File too large. Maximum size is 5MB for text files.",
     fileSize |-> FileSize(file), maxSize |-> MaxFileSize]

EmptyFileResponse ==
    [status |-> 422, error |-> "Text file appears to be empty."]

TooLittleTextResponse(cleanedText) ==
    [status |-> 422,
     error |-> "File contains too little text content to analyze (minimum 10 characters).",
     cleanedLength |-> Len(cleanedText)]

UploadUnexpectedResponse ==
    [status |-> 500,
     error |-> "An unexpected error occurred while processing the file."]

UploadSuccessResponse(file, cleanedText, cs) ==
    [status |-> 200, success |-> JsTrue, text |-> cleanedText, chunks |-> cs,
     fileSize |-> FileSize(file), fileType |-> file.type,
     textLength |-> Len(cleanedText), chunkCount |-> Len(cs)]

\* lines 5-127: the handler, from the parsed form to its response
UploadPOST(req) ==
    IF req.kind = "malformed" THEN UploadUnexpectedResponse
    ELSE LET file == FormFile(req) IN
    IF NoFile(file) THEN NoFileResponse
    ELSE IF FileType(file) # "text/plain" THEN UnsupportedTypeResponse(file)
    ELSE IF TooLarge(file) THEN TooLargeResponse(file)
    ELSE LET extractedText == ExtractedText(file) IN
    IF extractedText = <<>> \/ Trim(extractedText) = <<>>
    THEN EmptyFileResponse
    ELSE LET cleanedText == CleanText(extractedText) IN
    IF Len(cleanedText) < MinTextLength THEN TooLittleTextResponse(cleanedText)
    ELSE UploadSuccessResponse(file, cleanedText,
                               createTextChunks(cleanedText, UploadChunkSize))

\* Bounded uploads: heads of at most MaxParts pieces, with or without a
\* leading byte order mark
MaxParts == 3

UploadVocabulary ==
    {<<"h", "i">>, Rep("a", 9), Rep("w", 170), <<" ">>, <<"\r", "\n">>,
     <<"\r">>, <<InvalidByte>>}

Heads ==
    {mark \o Flatten(parts) :
        mark \in {<<>>, <<BOM>>},
        parts \in UNION {[1..n -> UploadVocabulary] : n \in 0..MaxParts}}

FileTypes == {"text/plain", "application/pdf", ""}

\* pad lengths: none, up to the size limit and one byte past it
Pads(head) ==
    {0, MaxFileSize - ByteLength(head), MaxFileSize + 1 - ByteLength(head)}

UploadRequests ==
    {[kind |-> "malformed"], [kind |-> "absent"],
     [kind |-> "string", value |-> ""], [kind |-> "string", value |-> "notes"]}

UploadReceived ==
    /\ uploadPc = "received"
    /\ \/ upload \in UploadRequests
       \/ \E t \in FileTypes, h \in Heads : \E n \in Pads(h) :
              upload = [kind |-> "file", type |-> t, head |-> h, pad |-> n]
    /\ uploadResponse = NoResponse

\* POST /api/upload, the whole handler
Upload ==
    /\ uploadPc = "received"
    /\ uploadResponse' = UploadPOST(upload)
    /\ uploadPc' = "done"
    /\ UNCHANGED <<upload, nonUploadVars>>

UploadInit ==
    /\ ChatOff /\ SegIdle /\ UploadReceived /\ ApiIdle /\ WidgetMounted
    /\ HealthIdle

UploadNext == Upload

SpecUpload == UploadInit /\ [][UploadNext]_vars

-----------------------------------------------------------------------------
(* Properties of the upload handler *)

\* every character of t is whitespace
OnlyWhitespace(t) == \A i \in 1..Len(t) : IsSpace(t[i])

\* the upload carries a file, and the checks before the given one pass
HasFile(u) == u.kind = "file" \/ (u.kind = "string" /\ u.value # "")
TypeOk(u) == u.kind = "file" /\ u.type = "text/plain"
SizeOk(u) == TypeOk(u) /\ FileSize(u) <= MaxFileSize
HasText(u) == SizeOk(u) /\ ~OnlyWhitespace(ExtractedText(u))
LongEnoughText(u) ==
    HasText(u) /\ Len(CleanText(ExtractedText(u))) >= MinTextLength

\* C14: an upload with no file answers 400, a type other than text/plain
\* 400, a size above 5 MB 413, only whitespace 422, fewer than 10 normalized
\* characters 422, each check applying only when the ones before it pass; a
\* file of exactly 5 MB is not answered 413; an error response has no text
\* and no chunks, and chunks are returned only when every check passes.
C14_UploadRejectsInOrder ==
    (uploadPc = "done" /\ upload.kind # "malformed") =>
        LET u == upload
            r == uploadResponse
        IN  /\ ~HasFile(u) => r.status = 400
            /\ (HasFile(u) /\ ~TypeOk(u)) => r.status = 400
            /\ (TypeOk(u) /\ ~SizeOk(u)) => r.status = 413
            /\ (SizeOk(u) /\ ~HasText(u)) => r.status = 422
            /\ (HasText(u) /\ ~LongEnoughText(u)) => r.status = 422
            /\ (TypeOk(u) /\ FileSize(u) = MaxFileSize) => r.status # 413
            /\ r.status # 200 => DOMAIN r \cap {"text", "chunks"} = {}
            /\ "chunks" \in DOMAIN r => LongEnoughText(u)

\* a text/plain file of whitespace only, one byte over the limit, answered 413
C14_Witness ==
    /\ uploadPc = "done"
    /\ TypeOk(upload)
    /\ FileSize(upload) = MaxFileSize + 1
    /\ OnlyWhitespace(ExtractedText(upload))
    /\ uploadResponse.status = 413
    /\ DOMAIN uploadResponse \cap {"text", "chunks"} = {}

-----------------------------------------------------------------------------
(* The Request Executor, src/lib/api.ts, ApiClient.request                 *)
(*                                                                         *)
(* Time is counted in ticks since the call. The timer of line 39 fires at  *)
(* tick apiTimeout if it is still pending; aborting the controller makes   *)
(* the pending fetch reject with an AbortError at once.                    *)

\* the last tick the clock is followed to
MaxClock == 5

ApiTimeouts == {2, 3}

ApiStatuses == {200, 404, 429, 500}

\* response.headers.get("content-type"); Undefined stands for null
ContentTypes ==
    {Undefined, "application/json", "application/json; charset=utf-8",
     "text/plain"}

\* What the body turns out to be: valid JSON text, other text, or a stream
\* that fails before its end
ApiBodyKinds == {"json", "text", "broken"}

\* line 60: contentType && contentType.includes("application/json")
DeclaresJson(contentType) ==
    contentType \in {"application/json", "application/json; charset=utf-8"}

Threw(name) == [threw |-> TRUE, name |-> name]

Read(data) == [threw |-> FALSE, data |-> data]

\* lines 60-64: response.json() or response.text()
FirstRead(contentType, bodyKind) ==
    IF bodyKind = "broken" THEN Threw("TypeError")
    ELSE IF DeclaresJson(contentType)
    THEN IF bodyKind = "json" THEN Read("parsed") ELSE Threw("SyntaxError")
    ELSE Read("raw")

\* line 67: response.text() on the body the first read has consumed
SecondRead == Threw("TypeError")

\* lines 59-68
ReadBody(contentType, bodyKind) ==
    LET first == FirstRead(contentType, bodyKind)
    IN  IF first.threw THEN SecondRead ELSE first

\* lines 98-143: the catch of request
RequestCatch(error) ==
    IF error.name = "AbortError"
    THEN [kind |-> "thrown", message |-> "Request timeout",
          code |-> "TIMEOUT"]
    ELSE IF error.name = "TypeError"
    THEN [kind |-> "thrown",
          message |-> "Network error - please check your connection",
          code |-> "NETWORK_ERROR"]
    ELSE IF "response" \in DOMAIN error
    THEN [kind |-> "thrown", message |-> "HTTP error",
          response |-> error.response]
    ELSE [kind |-> "thrown", message |-> "An unexpected error occurred"]

\* lines 77-95: the error thrown for a response that is not ok
HttpError(resp, data) ==
    [name |-> "Error",
     response |-> [data |-> data, status |-> resp.status]]

\* lines 56-97: from the resolved Response to the result of request
Completion(resp, bodyKind) ==
    LET read == ReadBody(resp.contentType, bodyKind)
    IN  IF read.threw THEN RequestCatch([name |-> read.name])
        ELSE IF ~Ok(resp.status) THEN RequestCatch(HttpError(resp, read.data))
        ELSE [kind |-> "returned", data |-> read.data, status |-> resp.status]

\* what the environment did to a call whose body ended
BodyCause(resp, bodyKind) ==
    IF bodyKind = "broken" THEN "broken"
    ELSE IF DeclaresJson(resp.contentType) /\ bodyKind = "text"
    THEN "unparsable"
    ELSE IF ~Ok(resp.status) THEN "status"
    ELSE "ok"

\* lines 25-27 and 204-209: the client's default headers, as name-value pairs
DefaultHeaders == {<<"Content-Type", "application/json">>}

\* { ...a, ...b }: the properties of a, overridden by those of b
Spread(a, b) == b \cup {p \in a : \A q \in b : q[1] # p[1]}

\* the headers a caller passes to ApiClient.post
CallerHeaders ==
    {{}, {<<"X-Request-Id", "1">>},
     {<<"Content-Type", "multipart/form-data; boundary=x">>}}

\* the calls of ApiClient.post: a FormData payload or any other value
ApiCalls == [payload : {"FormData", "object"}, headers : CallerHeaders]

\* lines 158-169: the options post hands to request
PostOptions(call) ==
    IF call.payload = "FormData"
    THEN [method |-> "POST", body |-> "FormData", headers |-> call.headers]
    ELSE [method |-> "POST", body |-> "JSON.stringify(data)",
          headers |-> Spread(DefaultHeaders, call.headers)]

\* lines 44-51: the config request hands to fetch
RequestConfig(options) ==
    [sent |-> TRUE, method |-> options.method, body |-> options.body,
     headers |-> Spread(DefaultHeaders, options.headers)]

ApiReady ==
    /\ apiPc = "ready"
    /\ apiTimeout \in ApiTimeouts
    /\ apiClock = 0
    /\ timerArmed = FALSE
    /\ fetchCount = 0
    /\ apiResponse = NoResponse
    /\ apiCause = "none"
    /\ apiResult = [kind |-> "none"]
    /\ apiCall \in ApiCalls
    /\ fetchConfig = NoConfig
    /\ handled = NotHandled

\* lines 38-53: arm the timer and call fetch with the merged config
Request ==
    /\ apiPc = "ready"
    /\ timerArmed' = TRUE
    /\ fetchCount' = fetchCount + 1
    /\ fetchConfig' = RequestConfig(PostOptions(apiCall))
    /\ apiPc' = "fetch"
    /\ UNCHANGED <<apiTimeout, apiClock, apiResponse, apiCause, apiResult,
                   apiCall, handled, nonApiVars>>

\* one tick passes while the call is pending; a pending timer fires first
ApiTick ==
    /\ apiPc \in {"fetch", "body"}
    /\ apiClock < MaxClock
    /\ ~(timerArmed /\ apiClock = apiTimeout)
    /\ apiClock' = apiClock + 1
    /\ UNCHANGED <<apiPc, apiTimeout, timerArmed, fetchCount, apiResponse,
                   apiCause, apiResult, callVars, nonApiVars>>

\* lines 39 and 98-109: the timer fires, the fetch rejects with AbortError
DeadlineFires ==
    /\ apiPc = "fetch"
    /\ timerArmed
    /\ apiClock = apiTimeout
    /\ timerArmed' = FALSE
    /\ apiCause' = "deadline"
    /\ apiResult' = RequestCatch([name |-> "AbortError"])
    /\ apiPc' = "thrown"
    /\ UNCHANGED <<apiTimeout, apiClock, fetchCount, apiResponse, callVars,
                   nonApiVars>>

\* lines 53 and 98-143: fetch rejects: no connection (TypeError), or an
\* error of another kind
FetchRejects(name) ==
    /\ apiPc = "fetch"
    /\ timerArmed' = FALSE
    /\ apiCause' = IF name = "TypeError" THEN "refused" ELSE "other"
    /\ apiResult' = RequestCatch([name |-> name])
    /\ apiPc' = "thrown"
    /\ UNCHANGED <<apiTimeout, apiClock, fetchCount, apiResponse, callVars,
                   nonApiVars>>

\* lines 53-57: fetch resolves with the status line and the headers; the
\* timer is cleared
FetchResolves(status, contentType) ==
    /\ apiPc = "fetch"
    /\ timerArmed' = FALSE
    /\ apiResponse' = [status |-> status, contentType |-> contentType]
    /\ apiPc' = "body"
    /\ UNCHANGED <<apiTimeout, apiClock, fetchCount, apiCause, apiResult,
                   callVars, nonApiVars>>

\* lines 59-97: the body ends, request returns or throws
BodyEnds(bodyKind) ==
    /\ apiPc = "body"
    /\ apiCause' = BodyCause(apiResponse, bodyKind)
    /\ apiResult' = Completion(apiResponse, bodyKind)
    /\ apiPc' = apiResult'.kind
    /\ UNCHANGED <<apiTimeout, apiClock, timerArmed, fetchCount, apiResponse,
                   callVars, nonApiVars>>

\* errors.ts lines 1-24: the error classes, as the instances they construct
APIError(message, statusCode) ==
    [class |-> "APIError", message |-> message, statusCode |-> statusCode]

ValidationError(message) ==
    [class |-> "ValidationError", message |-> message, statusCode |-> 400,
     code |-> "VALIDATION_ERROR"]

RateLimitError ==
    [class |-> "RateLimitError", message |-> "Too many requests",
     statusCode |-> 429, code |-> "RATE_LIMIT_ERROR"]

\* What a caller can catch besides what request threw: instances of the
\* error classes, a thrown string, an error carrying the code ECONNABORTED
AppErrors ==
    {APIError("Backend unavailable", 503), APIError("Failed", 500),
     ValidationError("Question is required"), RateLimitError,
     [primitive |-> "boom"],
     [message |-> "timeout of 30000ms exceeded", code |-> "ECONNABORTED"]}

\* line 56
InternalServerError == [message |-> "Internal server error", statusCode |-> 500]

\* errors.ts lines 26-57
handleAPIError(error) ==
    IF "class" \in DOMAIN error
    THEN [message |-> error.message, statusCode |-> error.statusCode]
    ELSE IF "primitive" \in DOMAIN error THEN InternalServerError
    ELSE IF "code" \in DOMAIN error /\ error.code = "ECONNABORTED"
    THEN [message |-> "Request timeout", statusCode |-> 408]
    ELSE IF "response" \in DOMAIN error /\ error.response.status = 429
    THEN [message |-> "Too many requests. Please try again later.",
          statusCode |-> 429]
    ELSE InternalServerError

\* the caller's catch block hands what it caught to handleAPIError: what
\* request threw, or an error raised beside it
Caught(e) ==
    /\ apiPc = "thrown"
    /\ ~handled.done
    /\ handled' = [done |-> TRUE, error |-> e, result |-> handleAPIError(e)]
    /\ UNCHANGED <<apiPc, apiTimeout, apiClock, timerArmed, fetchCount,
                   apiResponse, apiCause, apiResult, apiCall, fetchConfig,
                   nonApiVars>>

ApiInit ==
    ChatOff /\ SegIdle /\ UploadIdle /\ ApiReady /\ WidgetMounted /\ HealthIdle

ApiNext ==
    \/ Request
    \/ ApiTick
    \/ DeadlineFires
    \/ \E name \in {"TypeError", "Error"} : FetchRejects(name)
    \/ \E status \in ApiStatuses, contentType \in ContentTypes :
          FetchResolves(status, contentType)
    \/ \E bodyKind \in ApiBodyKinds : BodyEnds(bodyKind)
    \/ \E e \in {apiResult} \cup AppErrors : Caught(e)

SpecApi == ApiInit /\ [][ApiNext]_vars

-----------------------------------------------------------------------------
(* Properties of the Request Executor *)

\* C16 (as claimed): once more than apiTimeout ticks have passed since the
\* call, request has returned or thrown, in the body phase as well as
\* before the headers.
C16_DeadlineBoundsCall ==
    apiClock > apiTimeout => apiPc \in {"returned", "thrown"}

\* C17 (as claimed): a failed call is classified by what happened: no
\* connection gives NETWORK_ERROR, the deadline TIMEOUT, a non-success
\* status an error carrying status and body, a body that is not the
\* declared JSON a failure that is none of these three, anything else an
\* error without code and without response.
C17_FailureClassification ==
    apiPc = "thrown" =>
        LET code == Field(apiResult, "code")
            upstream == "response" \in DOMAIN apiResult
        IN  /\ apiCause = "refused" => code = "NETWORK_ERROR"
            /\ apiCause = "deadline" => code = "TIMEOUT"
            /\ apiCause = "status" =>
                   /\ upstream
                   /\ apiResult.response.status = apiResponse.status
                   /\ apiResult.response.data \in {"parsed", "raw"}
            /\ apiCause = "unparsable" =>
                   code \notin {"NETWORK_ERROR", "TIMEOUT"} /\ ~upstream
            /\ apiCause = "other" => code = Undefined /\ ~upstream

-----------------------------------------------------------------------------
(* The page and the chat widget: src/app/page.tsx,                         *)
(* src/components/ChatInterface.tsx                                        *)

\* questions sent by one mounted widget
MaxQuestions == 2

\* The Documents an upload can give the page
Documents ==
    {[success |-> JsTrue, fileName |-> "a.txt", text |-> "The budget is $500.",
      chunks |-> <<"The budget is $500.">>],
     [success |-> JsTrue, fileName |-> "b.txt", text |-> "The weather is sunny.",
      chunks |-> <<"The weather is sunny.">>]}

\* inputValue: empty, blank, or a question
InputValues == {"", "  ", "What is the budget?"}

\* inputValue.trim() is empty
BlankInput(v) == v \in {"", "  "}

\* How the fetch of /api/chat ends for the widget
ReplyKinds ==
    {"answer", "noAnswer", "unparsable", "status503", "status408",
     "status500", "rejected"}

UserMessage(v) == [isUser |-> TRUE, text |-> v]

BotMessage(t) == [isUser |-> FALSE, text |-> t]

\* lines 198-209 of ChatInterface.tsx: the fetch handleSubmit issues
ChatFetch(v, doc) ==
    [sent |-> TRUE,
     body |-> [question |-> v, documentText |-> doc.text,
               chunks |-> doc.chunks]]

\* lines 211-268: the bot message for each way the fetch can end
ReplyMessage(kind) ==
    CASE kind = "answer" -> BotMessage("42")
      [] kind = "noAnswer" ->
            BotMessage("Sorry, I could not process your question.")
      [] kind = "status503" -> BotMessage("Error: backend is not running")
      [] kind = "status408" -> BotMessage("Error: Request timeout")
      [] kind = "status500" -> BotMessage("Error: AI processing failed")
      [] kind = "unparsable" -> BotMessage("Error: Unexpected token")
      [] OTHER -> BotMessage("Error: Failed to fetch")

\* lines 211-268: the error state after the fetch ended
ReplyError(kind, before) ==
    IF kind \in {"answer", "noAnswer"} THEN before ELSE ReplyMessage(kind).text

\* page.tsx lines 48-50 with the pending fetch dropped
handleFileProcessedCancels(data) ==
    /\ documentData' = data
    /\ inFlight' = NoFlight
    /\ isLoading' = FALSE
    /\ UNCHANGED <<messages, chatError, submitted, nonWidgetVars>>

\* page.tsx lines 48-50: the upload widget hands over a Document, or null
\* when the file is removed
handleFileProcessed(data) ==
    /\ documentData' = data
    /\ UNCHANGED <<messages, isLoading, chatError, inFlight, submitted,
                   nonWidgetVars>>

\* ChatInterface.tsx lines 175-209: the form is submitted
handleSubmit(v) ==
    /\ submitted < MaxQuestions
    /\ IF BlankInput(v) \/ isLoading
       THEN UNCHANGED <<messages, isLoading, chatError, inFlight, submitted>>
       ELSE IF documentData = NullDocument
       THEN /\ chatError' = "Please upload a document first"
            /\ UNCHANGED <<messages, isLoading, inFlight, submitted>>
       ELSE /\ messages' = Append(messages, UserMessage(v))
            /\ isLoading' = TRUE
            /\ chatError' = Undefined
            /\ inFlight' = ChatFetch(v, documentData)
            /\ submitted' = submitted + 1
    /\ UNCHANGED <<documentData, fileVars, nonWidgetVars>>

\* ChatInterface.tsx lines 211-270: the fetch ends, in any of its ways
ReplyArrives(kind) ==
    /\ inFlight.sent
    /\ messages' = Append(messages, ReplyMessage(kind))
    /\ chatError' = ReplyError(kind, chatError)
    /\ isLoading' = FALSE
    /\ inFlight' = NoFlight
    /\ UNCHANGED <<documentData, submitted, fileVars, nonWidgetVars>>

\* ChatInterface.tsx lines 277-280; the button is rendered with a document
\* and at least one message (lines 287, 327), also while a question is
\* being answered
clearMessages ==
    /\ documentData # NullDocument
    /\ messages # <<>>
    /\ messages' = <<>>
    /\ chatError' = Undefined
    /\ UNCHANGED <<documentData, isLoading, inFlight, submitted, fileVars,
                   nonWidgetVars>>

\* The files a user can select: two text files, a PDF, a text file over
\* the size limit
Files ==
    {[name |-> "a.txt", type |-> "text/plain", tooLarge |-> FALSE],
     [name |-> "b.txt", type |-> "text/plain", tooLarge |-> FALSE],
     [name |-> "c.pdf", type |-> "application/pdf", tooLarge |-> FALSE],
     [name |-> "big.txt", type |-> "text/plain", tooLarge |-> TRUE]}

\* the Document /api/upload answers for a file
DocumentOf(file) == CHOOSE d \in Documents : d.fileName = file.name

\* How the fetch of /api/upload ends for the widget: a Document, a 2xx body
\* without success, a non-2xx status, a body that is not JSON, a rejection
UploadReplyKinds ==
    {"success", "noSuccess", "status422", "unparsable", "rejected"}

\* FileUpload.tsx lines 49-71: a file is dropped or chosen; the drop zone
\* is rendered without an uploaded file and takes no input while isLoading
\* (lines 226-243). uploadProgress only drives the progress bar.
handleFile(file) ==
    /\ uploadedFile = NullFile
    /\ ~uploading
    /\ IF file.type # "text/plain"
       THEN /\ uploadError' = "Only .txt files are supported"
            /\ UNCHANGED <<uploadedFile, uploading, uploadFlight>>
       ELSE IF file.tooLarge
       THEN /\ uploadError' = "File size must be less than 5MB"
            /\ UNCHANGED <<uploadedFile, uploading, uploadFlight>>
       ELSE /\ uploadError' = Null
            /\ uploadedFile' = file
            /\ uploading' = TRUE
            /\ uploadFlight' = [sent |-> TRUE, file |-> file]
    /\ UNCHANGED <<documentData, messages, isLoading, chatError, inFlight,
                   submitted, nonWidgetVars>>

\* FileUpload.tsx lines 84-139: the fetch of /api/upload ends
UploadReplyArrives(kind) ==
    /\ uploadFlight.sent
    /\ IF kind = "success"
       THEN /\ handleFileProcessed(DocumentOf(uploadFlight.file))
            /\ uploadError' = Null
       ELSE /\ uploadError' =
                  (IF kind = "noSuccess" THEN "Error processing file"
                   ELSE "Error uploading file. Please try again.")
            /\ UNCHANGED <<documentData, messages, isLoading, chatError,
                           inFlight, submitted, nonWidgetVars>>
    /\ uploading' = FALSE
    /\ uploadFlight' = NoFlight
    /\ UNCHANGED uploadedFile

\* FileUpload.tsx lines 176-181; the button is rendered with an uploaded
\* file (lines 226, 306-313)
removeFile ==
    /\ uploadedFile # NullFile
    /\ uploadedFile' = NullFile
    /\ uploadError' = Null
    /\ handleFileProcessed(NullDocument)
    /\ UNCHANGED <<uploading, uploadFlight>>

WidgetInit ==
    ChatOff /\ SegIdle /\ UploadIdle /\ ApiIdle /\ WidgetMounted /\ HealthIdle

WidgetNext ==
    \/ \E file \in Files : handleFile(file)
    \/ \E kind \in UploadReplyKinds : UploadReplyArrives(kind)
    \/ removeFile
    \/ \E v \in InputValues : handleSubmit(v)
    \/ \E kind \in ReplyKinds : ReplyArrives(kind)
    \/ clearMessages

SpecWidget == WidgetInit /\ [][WidgetNext]_vars

-----------------------------------------------------------------------------
(* Properties of the page and the chat widget *)

\* C18: a change of the page's document while a question is in flight
\* leaves the pending request, the conversation and isLoading as they are;
\* a request carries the text and chunks of the document current at its
\* submission; and when it ends, one bot message is appended whatever the
\* document is by then.
C18_InFlightKeepsItsDocument ==
    [][/\ (inFlight.sent /\ documentData' # documentData) =>
              UNCHANGED <<inFlight, messages, isLoading>>
       /\ (~inFlight.sent /\ inFlight'.sent) =>
              /\ documentData \in Documents
              /\ inFlight'.body.documentText = documentData.text
              /\ inFlight'.body.chunks = documentData.chunks
       /\ (inFlight.sent /\ inFlight' # inFlight) =>
              /\ Len(messages') = Len(messages) + 1
              /\ ~messages'[Len(messages')].isUser
              /\ ~isLoading']_vars

\* a question is in flight with the text of a document the page no longer
\* holds
C18_Witness ==
    /\ inFlight.sent
    /\ documentData \in Documents
    /\ inFlight.body.documentText # documentData.text

-----------------------------------------------------------------------------
(* Outbound calls of one request *)

\* a fetch of /health has been issued and has not ended
ProbeInFlight == healthCalls > 0 /\ healthOutcome = NoOutcome

\* a fetch of /chat has been issued and has not ended
InferenceInFlight == inferCalls > 0 /\ inferOutcome = NoOutcome

\* C19: the inference call is issued only after the health probe ended with
\* a 2xx status and a capability flag in its body, and the probe and the
\* inference call are never in flight together.
C19_OutboundCallsSequential ==
    /\ ~(ProbeInFlight /\ InferenceInFlight)
    /\ inferCalls > 0 =>
           /\ healthOutcome.kind = "response"
           /\ Ok(healthOutcome.status)
           /\ healthOutcome.bodyKind = "object"
           /\ healthOutcome.huggingface_available # Undefined

\* the inference call is in flight behind a completed, healthy probe
C19_Witness ==
    /\ InferenceInFlight
    /\ ~ProbeInFlight
    /\ healthOutcome.kind = "response"
    /\ healthOutcome.status = 200
    /\ healthOutcome.huggingface_available = JsTrue

\* A request is a chat request or a call of ApiClient.request
CallsInit ==
    /\ \/ ChatInit /\ ApiIdle
       \/ ChatOff /\ ApiReady
    /\ SegIdle /\ UploadIdle /\ WidgetMounted /\ HealthIdle

CallsNext == Next \/ ApiNext

SpecCalls == CallsInit /\ [][CallsNext]_vars

\* C20: one chat request issues at most one health probe and at most one
\* inference call, and one call of ApiClient.request exactly one fetch,
\* whatever their outcome.
C20_NothingRetried ==
    /\ healthCalls <= 1
    /\ inferCalls <= 1
    /\ apiPc \in {"fetch", "body", "returned", "thrown"} => fetchCount = 1
    /\ apiPc \in {"off", "ready"} => fetchCount = 0

\* the inference call was rejected and the request ended with one call each
C20_Witness ==
    /\ pc = "done"
    /\ inferOutcome.kind = "reject"
    /\ healthCalls = 1
    /\ inferCalls = 1

-----------------------------------------------------------------------------
(* Termination of a chat request *)

\* The fetch of /health always ends: with a response, a rejection, or by its
\* 5 s deadline (route.ts:25)
HealthEnds == \E h \in HealthOutcomes : HealthReturns(h)

\* The fetch of /chat always ends: with the backend's reply, a rejection, or
\* by its 45 s deadline (route.ts:90). The backend itself owes nothing.
InferEnds ==
    \/ \E name \in NetworkNames \cup TimeoutNames : InferRejects(name)
    \/ InferResolves

SpecLive ==
    /\ Init
    /\ [][Next]_vars
    /\ WF_vars(HealthEnds)
    /\ WF_vars(InferEnds)

\* C21: a chat request that has been received ends with a response, whatever
\* the backend does, and the response, once given, is the only one.
C21_RequestTerminatesOnce ==
    /\ (pc # "idle") ~> (pc = "done" /\ response.status # 0)
    /\ [][response.status # 0 => (response' = response /\ pc' = "done")]_vars

\* the backend never answered the inference call and the request ended by
\* the deadline
C21_Witness ==
    /\ pc = "done"
    /\ inferOutcome.kind = "reject"
    /\ inferOutcome.name \in TimeoutNames
    /\ backendReply.status = 0
    /\ response.status # 0

\* C24 (as claimed): a request whose body cannot be parsed as JSON is
\* answered 400, like one with missing fields, and no outbound call is made.
C24_UnparsableBodyIs400 ==
    (pc # "idle" /\ "unparsable" \in DOMAIN body) =>
        /\ pc = "done"
        /\ response.status = 400
        /\ healthCalls = 0
        /\ inferCalls = 0

-----------------------------------------------------------------------------
(* Paragraph packing and normalization *)

\* Greedy packing as claimed: the running chunk counts the blank line it
\* joins paragraphs with, and a new chunk starts exactly when the joined
\* chunk would exceed max
RECURSIVE ClaimedPacking(_, _, _, _)
ClaimedPacking(paragraphs, acc, cur, max) ==
    IF paragraphs = <<>>
    THEN IF cur = <<>> THEN acc ELSE Append(acc, cur)
    ELSE LET p == Trim(Head(paragraphs))
             joined == IF cur = <<>> THEN p ELSE cur \o <<"\n", "\n">> \o p
         IN  IF cur # <<>> /\ Len(joined) > max
             THEN ClaimedPacking(Tail(paragraphs), Append(acc, cur), p, max)
             ELSE ClaimedPacking(Tail(paragraphs), acc, joined, max)

\* C23 (as claimed): a text longer than maxChunkSize made of several
\* paragraphs, none longer than maxChunkSize, is packed greedily with the
\* separators counted. (Only texts whose packed chunks all reach the
\* 20-character floor are looked at.)
C23_GreedyPackingCountsSeparators ==
    LET paragraphs == SelectSeq(SplitParagraphsFrom(text, 1), NotBlank)
        claimed == ClaimedPacking(paragraphs, <<>>, <<>>, maxChunkSize)
    IN  (/\ upc \in {"done", "again"}
         /\ Len(text) > maxChunkSize
         /\ Len(paragraphs) >= 2
         /\ \A i \in 1..Len(paragraphs) :
                Len(Trim(paragraphs[i])) <= maxChunkSize
         /\ \A i \in 1..Len(claimed) : Len(claimed[i]) >= MinChunkLength)
        => chunks = claimed

\* the text has a line break (CR, LF or CRLF) with text on both sides
HasInnerLineBreak(t) ==
    \E i \in 1..Len(t) :
        /\ t[i] \in {"\r", "\n"}
        /\ \E j \in 1..(i - 1) : ~IsSpace(t[j])
        /\ \E k \in (i + 1)..Len(t) : ~IsSpace(t[k])

\* C22 (as claimed): normalization keeps line feeds, so an accepted upload
\* whose text has a line break between two pieces of text answers with a
\* text that still has a line feed.
C22_LineFeedsKept ==
    (/\ uploadPc = "done"
     /\ uploadResponse.status = 200
     /\ HasInnerLineBreak(ExtractedText(upload)))
    => \E i \in 1..Len(uploadResponse.text) : uploadResponse.text[i] = "\n"

-----------------------------------------------------------------------------
(* The health endpoint: src/app/api/health/route.ts, GET *)

\* health/route.ts line 74 and chat/route.ts line 25: the deadlines of the
\* two probes of /health, in seconds
HealthProbeDeadline == 10
ChatProbeDeadline == 5

\* seconds the backend takes to deliver its whole answer to GET /health:
\* within both deadlines, between them, past both
Latencies == {1, 7, 12}

\* How the backend answers GET /health: not at all (connection refused), or
\* with a status, a body and, in a JSON object, the huggingface_available flag
BackendStates ==
    {[reach |-> "refused"]} \cup
    {s \in [reach : {"answers"}, status : HealthStatuses,
            bodyKind : BodyKinds,
            huggingface_available : {Undefined, JsFalse, JsTrue},
            latency : Latencies] :
        s.bodyKind # "object" => s.huggingface_available = Undefined}

\* how a fetch of /health with AbortSignal.timeout(deadline) can end
ProbeOutcomes(state, deadline) ==
    IF state.reach = "refused"
    THEN [kind : {"reject"}, name : NetworkNames]
    ELSE IF state.latency >= deadline
    THEN [kind : {"reject"}, name : TimeoutNames]
    ELSE {[kind |-> "response", status |-> state.status,
           bodyKind |-> state.bodyKind,
           huggingface_available |-> state.huggingface_available]}

\* lines 80-88
PythonApiUp(h) ==
    [status |-> "running", available |-> TRUE, error |-> Null,
     huggingface_available |-> h.huggingface_available]

\* lines 93-105: the catch block, with the message of what was thrown
PythonApiDown(message) ==
    [status |-> "down", available |-> FALSE, error |-> message,
     huggingface_available |-> Undefined]

\* lines 110-118: the overall status and the response, always sent
HealthResponse(api) ==
    [httpStatus |-> 200,
     status |-> IF api.available THEN "healthy" ELSE "degraded",
     python_api |-> api]

\* HealthReport with the pythonResponse.ok test forgotten
HealthReportNoStatusCheck(h) ==
    HealthResponse(
        IF h.kind = "reject" THEN PythonApiDown(h.name)
        ELSE IF h.bodyKind = "unparsable" THEN PythonApiDown("SyntaxError")
        ELSE IF h.bodyKind = "null" THEN PythonApiDown("TypeError")
        ELSE PythonApiUp(h))

\* lines 67-118: the report for one outcome of the probe. Reading a property
\* of a body that is the JSON value null throws a TypeError (lines 81-87)
HealthReport(h) ==
    HealthResponse(
        IF h.kind = "reject" THEN PythonApiDown(h.name)
        ELSE IF ~Ok(h.status) THEN PythonApiDown("Python API returned status")
        ELSE IF h.bodyKind = "unparsable" THEN PythonApiDown("SyntaxError")
        ELSE IF h.bodyKind = "null" THEN PythonApiDown("TypeError")
        ELSE PythonApiUp(h))

\* GET /api/health, the whole handler
HealthGET ==
    /\ healthPc = "idle"
    /\ \E h \in ProbeOutcomes(backendState, HealthProbeDeadline) :
           healthReport' = HealthReport(h)
    /\ healthPc' = "done"
    /\ UNCHANGED <<backendState, precheck, nonHealthVars>>

\* chat/route.ts lines 18-76: the health step of a valid chat request
\* against the same backend state
ChatPrecheck ==
    /\ healthPc \in {"idle", "done"}
    /\ ~precheck.ran
    /\ \E h \in ProbeOutcomes(backendState, ChatProbeDeadline) :
           precheck' = [ran |-> TRUE, probe |-> h,
                        result |-> HealthCheckResult(h)]
    /\ UNCHANGED <<healthPc, backendState, healthReport, nonHealthVars>>

HealthReady ==
    /\ healthPc = "idle"
    /\ backendState \in BackendStates
    /\ healthReport = NoReport
    /\ precheck = NoPrecheck

HealthInit ==
    ChatOff /\ SegIdle /\ UploadIdle /\ ApiIdle /\ WidgetMounted /\ HealthReady

HealthNext == HealthGET \/ ChatPrecheck

SpecHealth == HealthInit /\ [][HealthNext]_vars

\* the backend answers 2xx in time for the health endpoint's probe
AnswersInTime ==
    /\ backendState.reach = "answers"
    /\ Ok(backendState.status)
    /\ backendState.latency < HealthProbeDeadline

\* C25 (as claimed): the report is always sent, available is true exactly
\* when the probe got a 2xx status and a parsable body within 10 s, a false
\* available comes with an error, and the status is healthy exactly when
\* available is true.
C25_AvailableIffParsable ==
    healthPc = "done" =>
        /\ healthReport.httpStatus = 200
        /\ healthReport.python_api.available <=>
               (AnswersInTime /\ backendState.bodyKind # "unparsable")
        /\ ~healthReport.python_api.available =>
               healthReport.python_api.error # Null
        /\ healthReport.status =
               (IF healthReport.python_api.available
                THEN "healthy" ELSE "degraded")

\* C25 (amended): as above, with available true exactly when the probe got
\* a 2xx status and a body that parses to a JSON value other than null
\* within 10 s.
C25_AvailableIffNonNullBody ==
    healthPc = "done" =>
        /\ healthReport.httpStatus = 200
        /\ healthReport.python_api.available <=>
               (AnswersInTime /\ backendState.bodyKind = "object")
        /\ ~healthReport.python_api.available =>
               healthReport.python_api.error # Null
        /\ healthReport.status =
               (IF healthReport.python_api.available
                THEN "healthy" ELSE "degraded")

\* a 2xx answer whose body is the JSON value null was reported as degraded
C25_Witness ==
    /\ healthPc = "done"
    /\ AnswersInTime
    /\ backendState.bodyKind = "null"
    /\ healthReport.status = "degraded"
    /\ healthReport.python_api.error = "TypeError"

\* C28 (as claimed): whenever the health endpoint reports healthy, the
\* health step of a valid chat request against the same backend state lets
\* the request through to the inference call.
C28_HealthyImpliesChatPasses ==
    (healthPc = "done" /\ healthReport.status = "healthy" /\ precheck.ran)
    => precheck.result.status # 503

-----------------------------------------------------------------------------
(* Properties of handleAPIError and ApiClient.post *)

\* the status of the class the claim gives an error
ClaimedStatusCode(e) ==
    IF "class" \in DOMAIN e THEN e.statusCode
    ELSE IF "code" \in DOMAIN e /\ e.code \in {"TIMEOUT", "ECONNABORTED"}
    THEN 408
    ELSE IF "response" \in DOMAIN e /\ e.response.status = 429 THEN 429
    ELSE 500

\* C26 (as claimed): handleAPIError answers an APIError instance with its own
\* message and statusCode (400 for a ValidationError, 429 for a
\* RateLimitError), an error with response status 429 with 429, a timeout
\* thrown by ApiClient.request with 408 and every other error with 500.
C26_StatusOfErrorClass ==
    handled.done =>
        /\ handled.result.statusCode = ClaimedStatusCode(handled.error)
        /\ "class" \in DOMAIN handled.error =>
               handled.result.message = handled.error.message

\* C27 (as claimed): post hands a FormData payload to fetch unserialized
\* with the caller's headers only, and any other payload as JSON text with
\* the default headers included.
C27_FormDataWithoutDefaultHeaders ==
    fetchConfig.sent =>
        IF apiCall.payload = "FormData"
        THEN /\ fetchConfig.body = "FormData"
             /\ fetchConfig.headers = apiCall.headers
        ELSE /\ fetchConfig.body = "JSON.stringify(data)"
             /\ fetchConfig.headers = Spread(DefaultHeaders, apiCall.headers)

-----------------------------------------------------------------------------
(* Properties of the widgets under interleaving *)

\* C29 (as claimed): at most one question is in flight, every question gets
\* exactly one bot message and isLoading returns to false, and the message
\* list alternates a user message and its bot reply.
C29_ConversationAlternates ==
    /\ isLoading <=> inFlight.sent
    /\ \A i \in 1..Len(messages) : messages[i].isUser <=> (i % 2 = 1)
    /\ ~isLoading => Len(messages) % 2 = 0

\* C30 (as claimed): whenever no upload is in progress and the widget shows
\* an uploaded file, the page holds the Document produced from that file.
C30_UploadedFileHasDocument ==
    (~uploading /\ uploadedFile # NullFile) =>
        /\ documentData # NullDocument
        /\ documentData.fileName = uploadedFile.name

====
